---- MODULE Spec2Model ----
(***************************************************************************)
(* A model of the path topology reconstruction of trimesh:                 *)
(*   trimesh/path/traversal.py  vertex graph, cycle ordering, winding      *)
(*   trimesh/path/polygons.py   enclosure (containment) tree               *)
(*   trimesh/path/path.py       Path / Path2D and the derived-value cache  *)
(*   trimesh/util.py            is_ccw                                      *)
(*                                                                         *)
(* Conventions.  Python indexes from 0, TLA+ sequences from 1: a vertex    *)
(* index or an entity index of the model is the Python index plus one.     *)
(* Coordinates are integer pairs <<x, y>>.  An entity is a record          *)
(* [points |-> sequence of vertex indices, closed |-> BOOLEAN].            *)
(***************************************************************************)
EXTENDS Integers, Sequences, FiniteSets, TLC

VARIABLES
    vertices,   \* Path.vertices: sequence of coordinates
    entities,   \* Path.entities: sequence of entities
    cache,      \* Path._cache: the keys present and their values
    stack,      \* the active process() calls, innermost last
    call,       \* the user-level call in progress or last finished
    edited,     \* the vertex table was edited directly since the cache was
                \* last emptied
    lastrun,    \* the last run of generate_closed_paths: the edges given to
                \* the graph in order, the cycles cycle_basis reported; and
                \* whether a pipeline run completed with no change made by
                \* the caller since
    tphase,     \* traversal specification: "input" or "done"
    tresult,    \* traversal specification: what closed_paths returned
    polygons,   \* enclosure specification: the polygon list given
    ephase,     \* enclosure specification: "input" or "done"
    eresult,    \* enclosure specification: what polygons_enclosure_tree returned
    full,       \* holes specification: what polygons_full computed
    sampled,    \* sampling specification: what discretize_path was given and returned
    parts       \* split specification: what split returned

vars == <<vertices, entities, cache, stack, call, edited, lastrun,
          tphase, tresult, polygons, ephase, eresult, full, sampled, parts>>

(***************************************************************************)
(* Sequence helpers                                                        *)
(***************************************************************************)
Reverse(s) == [i \in 1..Len(s) |-> s[Len(s) + 1 - i]]

Range(s) == {s[i] : i \in 1..Len(s)}

RECURSIVE SumSeq(_)
SumSeq(s) == IF s = <<>> THEN 0 ELSE s[1] + SumSeq(Tail(s))

RECURSIVE Flatten(_)
Flatten(ss) == IF ss = <<>> THEN <<>> ELSE ss[1] \o Flatten(Tail(ss))

\* the elements of a finite set of integers as an ascending sequence
SetToSortedSeq(S) ==
    [k \in 1..Cardinality(S) |->
        CHOOSE x \in S : Cardinality({y \in S : y < x}) = k - 1]

\* F(v), with v evaluated once whatever the number of its uses in F
Apply(F(_), v) == CHOOSE r \in {F(x) : x \in {v}} : TRUE

(***************************************************************************)
(* Entities (trimesh/path/entities.py is not among the sources; what the   *)
(* traversal code uses of an entity is modelled from its uses and from the *)
(* entity interface of the specification).                                 *)
(***************************************************************************)
\* entity.nodes: the consecutive pairs of the entity's points, the edges it
\* contributes to the vertex graph ("add_edges_from(entity.nodes, ...)")
Nodes(e) == [i \in 1..(Len(e.points) - 1) |-> <<e.points[i], e.points[i + 1]>>]

\* entity.end_points: first and last point
EndPoints(e) == <<e.points[1], e.points[Len(e.points)]>>

\* entity.discrete(vertices): the entity's points in stored order; a closed
\* entity returns to its first point
Discrete(e, verts) ==
    LET pts == [i \in 1..Len(e.points) |-> verts[e.points[i]]]
    IN  IF e.closed THEN Append(pts, verts[e.points[1]]) ELSE pts

(***************************************************************************)
(* util.is_ccw                                                             *)
(***************************************************************************)
\* twice the "area" is_ccw sums: sum of xd * yd, xd = x[i+1] - x[i],
\* yd = y[i] + y[i+1]
IsCcwArea2(points) ==
    SumSeq([i \in 1..(Len(points) - 1) |->
              (points[i + 1][1] - points[i][1]) * (points[i][2] + points[i + 1][2])])

is_ccw(points) == IsCcwArea2(points) < 0

(***************************************************************************)
(* traversal.vertex_graph                                                  *)
(***************************************************************************)
\* The graph is an nx.Graph: one edge per unordered vertex pair, and the
\* attribute entity_index of an edge added again is overwritten.  An edge is
\* the set of its one or two ends.
EdgesOf(e) == {{e.points[k], e.points[k + 1]} : k \in 1..(Len(e.points) - 1)}

\* closed entities taken for open ones as well
OpenIndices_All(ents) == 1..Len(ents)

\* the entities of the "else" branch of the loop
OpenIndices(ents) == {i \in 1..Len(ents) : ~ents[i].closed}

vertex_graph(ents) ==
    LET edges == UNION {EdgesOf(ents[i]) : i \in OpenIndices(ents)}
        last(ed) == LET S == {i \in OpenIndices(ents) : ed \in EdgesOf(ents[i])}
                    IN  CHOOSE i \in S : \A j \in S : j <= i
    IN  [ nodes  |-> UNION edges,
          edges  |-> edges,
          entity_index |-> [ed \in edges |-> last(ed)],
          closed |-> SetToSortedSeq({i \in 1..Len(ents) : ents[i].closed}) ]

(***************************************************************************)
(* nx.cycles.cycle_basis (networkx, an external library).  For a graph in  *)
(* which no vertex has more than two neighbours, every connected component *)
(* is a chain (no cycle) or one simple cycle, and the basis holds each     *)
(* simple cycle once, plus [z] for every self loop z.  Which vertex a      *)
(* cycle starts from, which way round it is reported and the order of the  *)
(* cycles in the list are left to the library: every choice is possible.   *)
(***************************************************************************)
Nbrs(g, v) == {w \in g.nodes \ {v} : {v, w} \in g.edges}

RECURSIVE Reach(_, _)
Reach(g, S) ==
    Apply(LAMBDA T : IF T = S THEN S ELSE Reach(g, T),
          S \cup UNION {Nbrs(g, v) : v \in S})

Components(g) == {Reach(g, {v}) : v \in g.nodes}

CycleComponents(g) ==
    {C \in Components(g) : \A v \in C : Cardinality(Nbrs(g, v)) = 2}

SelfLoops(g) == {v \in g.nodes : {v} \in g.edges}

RECURSIVE WalkCycle(_, _, _, _, _)
WalkCycle(g, start, prev, cur, acc) ==
    Apply(LAMBDA next : IF next = start THEN acc
                        ELSE WalkCycle(g, start, cur, next, Append(acc, next)),
          CHOOSE w \in Nbrs(g, cur) : w # prev)

CycleReps(g) ==
    UNION {{WalkCycle(g, s, s, n, <<s, n>>) : n \in Nbrs(g, s)} :
              s \in UNION CycleComponents(g)}
    \cup {<<z>> : z \in SelfLoops(g)}

BasisSupported(g) == \A v \in g.nodes : Cardinality(Nbrs(g, v)) <= 2

Bases(k, reps) ==
    {b \in [1..k -> reps] : \A i, j \in 1..k : i # j => Range(b[i]) # Range(b[j])}

cycle_basis(g) ==
    Apply(LAMBDA h : Bases(Cardinality(CycleComponents(h)) + Cardinality(SelfLoops(h)),
                           CycleReps(h)),
          g)

(***************************************************************************)
(* traversal.edge_direction                                                *)
(***************************************************************************)
\* edge_direction with the second test answering 1: a reversed entity is not
\* recognised
edge_direction_NoReverse(a, b) ==
    IF a[1] = b[1] THEN 1
    ELSE IF a[1] = b[2] THEN 1
    ELSE IF a[2] = b[2] THEN 1
    ELSE IF a[2] = b[1] THEN -1
    ELSE 0

\* edge_direction with the last branch answering 1 instead of raising
edge_direction_NeverRaises(a, b) ==
    IF a[1] = b[1] THEN 1
    ELSE IF a[1] = b[2] THEN -1
    ELSE IF a[2] = b[2] THEN 1
    ELSE IF a[2] = b[1] THEN -1
    ELSE 1

\* 1 or -1; 0 stands for the ValueError of the last branch
edge_direction(a, b) ==
    IF a[1] = b[1] THEN 1
    ELSE IF a[1] = b[2] THEN -1
    ELSE IF a[2] = b[2] THEN 1
    ELSE IF a[2] = b[1] THEN -1
    ELSE 0

(***************************************************************************)
(* traversal.vertex_to_entity_path                                          *)
(***************************************************************************)
\* points[::direction]
Slice(points, direction) == IF direction = -1 THEN Reverse(points) ELSE points

ccw_dir(vertex_path, verts) ==
    LET ring == [i \in 1..(Len(vertex_path) + 1) |->
                    verts[vertex_path[((i - 1) % Len(vertex_path)) + 1]]]
    IN  IF is_ccw(ring) THEN 1 ELSE -1

\* one pass of the loop "for i in range(len(vertex_path)+1)", from i on;
\* st = [entity_path, entities, raised]
RECURSIVE EntityPathLoop(_, _, _, _, _)
EntityPathLoop(i, vertex_path, g, dir, st) ==
    IF i > Len(vertex_path) \/ st.raised THEN st
    ELSE
      LET n == Len(vertex_path)
          vertex_index == <<vertex_path[(i % n) + 1], vertex_path[((i + 1) % n) + 1]>>
          entity_index == g.entity_index[{vertex_index[1], vertex_index[2]}]
          entity    == st.entities[entity_index]
          direction == edge_direction(vertex_index, EndPoints(entity))
          isnew == \/ st.entity_path = <<>>
                   \/ /\ st.entity_path[Len(st.entity_path)] # entity_index
                      /\ st.entity_path[1] # entity_index
      IN  IF ~isnew THEN EntityPathLoop(i + 1, vertex_path, g, dir, st)
          ELSE IF direction = 0
               THEN [st EXCEPT !.raised = TRUE]
          ELSE Apply(LAMBDA next : EntityPathLoop(i + 1, vertex_path, g, dir, next),
                 [ entity_path |-> Append(st.entity_path, entity_index),
                   entities    |-> [st.entities EXCEPT ![entity_index].points =
                                        Slice(@, direction * dir)],
                   raised      |-> FALSE ])

vertex_to_entity_path(vertex_path, g, ents, verts) ==
    LET dir == ccw_dir(vertex_path, verts)
    IN  Apply(LAMBDA st : [ entity_path |-> Slice(st.entity_path, dir),
                            entities    |-> st.entities,
                            raised      |-> st.raised ],
              EntityPathLoop(0, vertex_path, g, dir,
                  [entity_path |-> <<>>, entities |-> ents, raised |-> FALSE]))

(***************************************************************************)
(* traversal.closed_paths                                                  *)
(***************************************************************************)
\* a cycle test that also skips triangles
SkipCycle_Triangles(vertex_path) == Len(vertex_path) < 4

\* "if len(vertex_path) < 2: continue"
SkipCycle(vertex_path) == Len(vertex_path) < 2

\* the loop over vertex_paths, from position k on; st = [paths, entities, raised]
RECURSIVE ClosedPathsLoop(_, _, _, _, _)
ClosedPathsLoop(k, vertex_paths, g, verts, st) ==
    IF k > Len(vertex_paths) \/ st.raised THEN st
    ELSE IF SkipCycle(vertex_paths[k])
         THEN ClosedPathsLoop(k + 1, vertex_paths, g, verts, st)
    ELSE Apply(LAMBDA r :
                 ClosedPathsLoop(k + 1, vertex_paths, g, verts,
                   [ paths    |-> IF r.raised THEN st.paths
                                  ELSE Append(st.paths, r.entity_path),
                     entities |-> r.entities,
                     raised   |-> r.raised ]),
               vertex_to_entity_path(vertex_paths[k], g, st.entities, verts))

\* closed_paths(entities, vertices) when cycle_basis reports vertex_paths:
\* the paths returned, the entities as the in-place flips leave them, and
\* whether it raised
closed_paths(ents, verts, vertex_paths) ==
    Apply(LAMBDA g :
            ClosedPathsLoop(1, vertex_paths, g, verts,
              [ paths    |-> [k \in 1..Len(g.closed) |-> <<g.closed[k]>>],
                entities |-> ents,
                raised   |-> FALSE ]),
          vertex_graph(ents))

(***************************************************************************)
(* traversal.discretize_path                                               *)
(***************************************************************************)
\* discretize_path that treats the only entity of a path as one that is not
\* the last
discretize_path_SingleSliced(ents, verts, path) ==
    IF Len(path) = 0 THEN <<>>
    ELSE IF Len(path) = 1
         THEN SubSeq(Discrete(ents[path[1]], verts), 1,
                     Len(Discrete(ents[path[1]], verts)) - 1)
    ELSE Flatten([i \in 1..Len(path) |->
            LET current == Discrete(ents[path[i]], verts)
            IN  IF i = Len(path) THEN current
                ELSE SubSeq(current, 1, Len(current) - 1)])

\* discretize_path that extends the result by all of every entity's points
discretize_path_NoSlice(ents, verts, path) ==
    IF Len(path) = 0 THEN <<>>
    ELSE IF Len(path) = 1 THEN Discrete(ents[path[1]], verts)
    ELSE Flatten([i \in 1..Len(path) |-> Discrete(ents[path[i]], verts)])

\* the points of the path; <<>> stands for the NameError on an empty path
discretize_path(ents, verts, path) ==
    IF Len(path) = 0 THEN <<>>
    ELSE IF Len(path) = 1 THEN Discrete(ents[path[1]], verts)
    ELSE Flatten([i \in 1..Len(path) |->
            LET current == Discrete(ents[path[i]], verts)
            IN  IF i = Len(path) THEN current
                ELSE SubSeq(current, 1, Len(current) - 1)])

(***************************************************************************)
(* Polygons (shapely and rtree, external libraries).  A polygon is         *)
(* [none |-> FALSE, ring |-> its boundary points in order]; None is        *)
(* [none |-> TRUE, ring |-> <<>>].  The polygons of the model are convex,  *)
(* for which containment is decided exactly by the corner points.          *)
(***************************************************************************)
None == [none |-> TRUE, ring |-> <<>>]

Polygon(ring) == [none |-> FALSE, ring |-> ring]

Min(S) == CHOOSE x \in S : \A y \in S : x <= y

Max(S) == CHOOSE x \in S : \A y \in S : y <= x

\* polygon.bounds: <<minx, miny, maxx, maxy>>
Bounds(poly) ==
    LET xs == {poly.ring[i][1] : i \in 1..Len(poly.ring)}
        ys == {poly.ring[i][2] : i \in 1..Len(poly.ring)}
    IN  <<Min(xs), Min(ys), Max(xs), Max(ys)>>

\* rtree: two boxes intersect when they share at least a point
BoxesIntersect(a, b) ==
    /\ a[1] <= b[3] /\ b[1] <= a[3]
    /\ a[2] <= b[4] /\ b[2] <= a[4]

\* twice the signed area of the triangle a, b, c
Cross(a, b, c) == (b[1] - a[1]) * (c[2] - a[2]) - (b[2] - a[2]) * (c[1] - a[1])

\* the point pt lies in the closed convex region bounded by ring
PointInConvex(pt, ring) ==
    LET n == Len(ring)
        side == {Cross(ring[i], ring[(i % n) + 1], pt) : i \in 1..n}
    IN  (\A c \in side : c >= 0) \/ (\A c \in side : c <= 0)

\* the closed segments p1-p2 and q1-q2 have a point in common
SegmentsMeet(p1, p2, q1, q2) ==
    LET d1 == Cross(q1, q2, p1)
        d2 == Cross(q1, q2, p2)
        d3 == Cross(p1, p2, q1)
        d4 == Cross(p1, p2, q2)
        within(a, b, c) == /\ Min({a[1], b[1]}) <= c[1] /\ c[1] <= Max({a[1], b[1]})
                           /\ Min({a[2], b[2]}) <= c[2] /\ c[2] <= Max({a[2], b[2]})
    IN  \/ /\ ((d1 > 0 /\ d2 < 0) \/ (d1 < 0 /\ d2 > 0))
           /\ ((d3 > 0 /\ d4 < 0) \/ (d3 < 0 /\ d4 > 0))
        \/ (d1 = 0 /\ within(q1, q2, p1))
        \/ (d2 = 0 /\ within(q1, q2, p2))
        \/ (d3 = 0 /\ within(p1, p2, q1))
        \/ (d4 = 0 /\ within(p1, p2, q2))

\* the ring without its closing point
OpenRing(ring) ==
    IF Len(ring) > 1 /\ ring[1] = ring[Len(ring)]
    THEN SubSeq(ring, 1, Len(ring) - 1) ELSE ring

\* polygon.is_valid of shapely: at least three corners, none of them twice,
\* an area, and no two sides meeting except neighbours at their corner
is_valid(poly) ==
    /\ ~poly.none
    /\ Apply(LAMBDA r :
               /\ Len(r) >= 3
               /\ \A i, j \in 1..Len(r) : i # j => r[i] # r[j]
               /\ SumSeq([i \in 1..Len(r) |->
                            Cross(<<0, 0>>, r[i], r[(i % Len(r)) + 1])]) # 0
               /\ \A i, j \in 1..Len(r) :
                     (i # j /\ (i % Len(r)) + 1 # j /\ (j % Len(r)) + 1 # i)
                         => ~SegmentsMeet(r[i], r[(i % Len(r)) + 1],
                                          r[j], r[(j % Len(r)) + 1]),
             OpenRing(poly.ring))

\* a ring without its spikes: a corner whose two neighbours are the same
\* point is dropped together with one of them, as long as there is one
RECURSIVE Clean(_)
Clean(r) ==
    LET n == Len(r)
        prv(i) == ((i + n - 2) % n) + 1
        nxt(i) == (i % n) + 1
        tips == {i \in 1..n : n >= 3 /\ r[prv(i)] = r[nxt(i)]}
    IN  IF tips = {} THEN r
        ELSE LET t == CHOOSE i \in tips : \A k \in tips : i <= k
                 drop == {t, nxt(t)}
                 keep == SetToSortedSeq((1..n) \ drop)
             IN  Clean([k \in 1..Len(keep) |-> r[keep[k]]])

\* polygon.buffer(distance) of shapely with a distance of the merge
\* tolerance, outward or inward: the polygon of the same region with what
\* is thinner than the tolerance closed
buffer(poly, distance) == [none |-> FALSE, ring |-> Clean(OpenRing(poly.ring))]

\* a.contains(b) of shapely, for convex polygons
Contains(a, b) == \A i \in 1..Len(b.ring) : PointInConvex(b.ring[i], a.ring)

(***************************************************************************)
(* polygons.polygons_enclosure_tree                                        *)
(***************************************************************************)
\* tree.intersection(bounds): the indices inserted whose box meets bounds
TreeIntersection(polys, bounds) ==
    {j \in 1..Len(polys) : BoxesIntersect(Bounds(polys[j]), bounds)}

\* the first test with the two polygons exchanged
EdgesAddedAt_Exchanged(polys, i) ==
    IF polys[i].none THEN {}
    ELSE UNION { IF Contains(polys[j], polys[i]) THEN {<<i, j>>}
                 ELSE IF Contains(polys[j], polys[i]) THEN {<<j, i>>}
                 ELSE {} :
                 j \in TreeIntersection(polys, Bounds(polys[i])) \ {i} }

\* the second test adding the edge the wrong way round
EdgesAddedAt_SameWay(polys, i) ==
    IF polys[i].none THEN {}
    ELSE UNION { IF Contains(polys[i], polys[j]) THEN {<<i, j>>}
                 ELSE IF Contains(polys[j], polys[i]) THEN {<<i, j>>}
                 ELSE {} :
                 j \in TreeIntersection(polys, Bounds(polys[i])) \ {i} }

\* the edges the pass of polygon i adds: for each candidate j of the R-tree,
\* i -> j if i contains j, else j -> i if j contains i
EdgesAddedAt(polys, i) ==
    IF polys[i].none THEN {}
    ELSE UNION { IF Contains(polys[i], polys[j]) THEN {<<i, j>>}
                 ELSE IF Contains(polys[j], polys[i]) THEN {<<j, i>>}
                 ELSE {} :
                 j \in TreeIntersection(polys, Bounds(polys[i])) \ {i} }

\* the nodes without an outgoing edge instead
Roots_OutDegree(count, edges) ==
    SetToSortedSeq({n \in 1..count : ~\E e \in edges : e[1] = n})

\* g.in_degree() == 0
Roots(count, edges) ==
    SetToSortedSeq({n \in 1..count : ~\E e \in edges : e[2] = n})

\* roots and the directed graph (its edges); tree.insert(i, polygon.bounds)
\* raises on a None entry
polygons_enclosure_tree(polys) ==
    IF \E i \in 1..Len(polys) : polys[i].none
    THEN [raised |-> TRUE, roots |-> <<>>, edges |-> {}]
    ELSE Apply(LAMBDA edges : [raised |-> FALSE,
                               roots  |-> Roots(Len(polys), edges),
                               edges  |-> edges],
               UNION {EdgesAddedAt(polys, i) : i \in 1..Len(polys)})

(***************************************************************************)
(* grouping.unique_rows and the entity hash (trimesh/grouping.py and       *)
(* trimesh/path/entities.py are not among the sources).  unique_rows is    *)
(* numpy's unique over rows: the distinct rows in ascending order, each    *)
(* represented by the index of its first occurrence, and for every row the *)
(* position of its value among the distinct rows.                          *)
(***************************************************************************)
RECURSIVE LexLess(_, _)
LexLess(a, b) ==
    IF Len(b) = 0 THEN FALSE
    ELSE IF Len(a) = 0 THEN TRUE
    ELSE IF a[1] # b[1] THEN a[1] < b[1]
    ELSE LexLess(Tail(a), Tail(b))

\* the distinct rows in ascending order
SortRows(S) ==
    [k \in 1..Cardinality(S) |->
        CHOOSE x \in S : Cardinality({y \in S : LexLess(y, x)}) = k - 1]

unique_rows(data) ==
    Apply(LAMBDA sorted :
            [ unique  |-> [k \in 1..Len(sorted) |->
                             Min({i \in 1..Len(data) : data[i] = sorted[k]})],
              inverse |-> [i \in 1..Len(data) |->
                             CHOOSE k \in 1..Len(sorted) : sorted[k] = data[i]] ],
          SortRows(Range(data)))

\* entity.hash: the content of the entity whatever its direction, its points
\* in ascending order followed by the closed flag
Hash(e) ==
    SetToSortedSeq(Range(e.points)) \o <<IF e.closed THEN 1 ELSE 0>>

(***************************************************************************)
(* The structural operations of Path (trimesh/path/path.py)                *)
(***************************************************************************)
\* vertices = vertices[unique]; entity.points = inverse[entity.points]
merge_vertices(verts, ents) ==
    Apply(LAMBDA u :
            [ vertices |-> [k \in 1..Len(u.unique) |-> verts[u.unique[k]]],
              entities |-> [i \in 1..Len(ents) |->
                              [ents[i] EXCEPT !.points =
                                  [k \in 1..Len(@) |-> u.inverse[@[k]]]]] ],
          unique_rows(verts))

\* entities = entities[unique], only when some entity is a duplicate
remove_duplicate_entities(ents) ==
    Apply(LAMBDA u : IF Len(u.unique) # Len(ents)
                     THEN [k \in 1..Len(u.unique) |-> ents[u.unique[k]]]
                     ELSE ents,
          unique_rows([i \in 1..Len(ents) |-> Hash(ents[i])]))

\* referenced_vertices
referenced_vertices(ents) == UNION {Range(ents[i].points) : i \in 1..Len(ents)}

\* util.replace_references with the dictionary looked up a second time for
\* the value it gave
replace_references_Twice(data, reference_dict) ==
    [i \in 1..Len(data) |->
        IF data[i] \in DOMAIN reference_dict
        THEN (IF reference_dict[data[i]] \in DOMAIN reference_dict
              THEN reference_dict[reference_dict[data[i]]]
              ELSE reference_dict[data[i]])
        ELSE data[i]]

\* util.replace_references: every value that is a key of the dictionary is
\* replaced by what the dictionary holds for it
replace_references(data, reference_dict) ==
    [i \in 1..Len(data) |->
        IF data[i] \in DOMAIN reference_dict THEN reference_dict[data[i]]
        ELSE data[i]]

\* entity.rereference(replacement_dict), for every entity
replace_vertex_references(ents, replacement_dict) ==
    [i \in 1..Len(ents) |->
        [ents[i] EXCEPT !.points = replace_references(@, replacement_dict)]]

\* the referenced vertices renumbered from the first on, in ascending order
remove_unreferenced_vertices(verts, ents) ==
    LET unique_ref == SetToSortedSeq(referenced_vertices(ents))
        replacement_dict == [v \in Range(unique_ref) |->
                                CHOOSE k \in 1..Len(unique_ref) : unique_ref[k] = v]
    IN  [ vertices |-> [k \in 1..Len(unique_ref) |-> verts[unique_ref[k]]],
          entities |-> replace_vertex_references(ents, replacement_dict) ]

\* transform_points with the matrix that exchanges the two axes
transform(verts) == [i \in 1..Len(verts) |-> <<verts[i][2], verts[i][1]>>]

(***************************************************************************)
(* The derived-value cache of Path.  cache.keys are the keys present in    *)
(* the dictionary _cache; the other fields hold the values of the keys     *)
(* present.  "enclosure" is the undirected view of the graph stored under  *)
(* "enclosure_directed" and is kept as the same set of edges.              *)
(***************************************************************************)
EmptyCache ==
    [ keys |-> {}, processing |-> FALSE, entity_count |-> 0,
      paths |-> <<>>, polygons_closed |-> <<>>, root |-> <<>>,
      enclosure_directed |-> {}, polygons_full |-> <<>> ]

\* the properties read through _cache_get
Derived == {"paths", "polygons_closed", "root", "enclosure",
            "enclosure_directed", "discrete"}

\* entity_ok with the comparison negated
EntityOk_Differs(c, ents) ==
    "entity_count" \in c.keys /\ Len(ents) # c.entity_count

\* entity_ok of _cache_ok
EntityOk(c, ents) == "entity_count" \in c.keys /\ Len(ents) = c.entity_count

\* _cache_ok without the processing flag
CacheOk_CountOnly(c, ents) == EntityOk(c, ents)

\* _cache_ok
CacheOk(c, ents) ==
    LET processing == "processing" \in c.keys /\ c.processing
        entity_ok  == EntityOk(c, ents)
    IN  processing \/ entity_ok

\* _cache = {'entity_count': len(entities)}
CacheReset(ents) ==
    [EmptyCache EXCEPT !.keys = {"entity_count"}, !.entity_count = Len(ents)]

\* what _cache_get(key) returns once the cache is verified: the value of the
\* key, or None
CacheValue(c, key) ==
    [ none  |-> key \notin c.keys,
      paths |-> IF key = "paths" /\ key \in c.keys THEN c.paths ELSE <<>>,
      polygons |-> IF key = "polygons_closed" /\ key \in c.keys
                   THEN c.polygons_closed ELSE <<>>,
      root  |-> IF key = "root" /\ key \in c.keys THEN c.root ELSE <<>>,
      edges |-> IF key = "enclosure_directed" /\ key \in c.keys
                THEN c.enclosure_directed
                ELSE IF key = "enclosure" /\ key \in c.keys
                THEN c.enclosure_directed \cup
                     {<<e[2], e[1]>> : e \in c.enclosure_directed}
                ELSE {} ]

\* path_to_polygon of every path; the rings of the drawings below are valid
\* single polygons, which the recovery by buffering leaves as they are
\* path_to_polygon and the recovery of one entry of the list
RecoverPolygon(polygon) ==
    IF is_valid(polygon) THEN polygon
    ELSE Apply(LAMBDA buffered :
                 IF is_valid(buffered)
                 THEN Apply(LAMBDA unbuffered :
                              IF is_valid(unbuffered) THEN unbuffered
                              ELSE buffered,
                            buffer(buffered, -1))
                 ELSE polygon,
               buffer(polygon, 1))

generate_discrete(ents, verts, paths) ==
    [i \in 1..Len(paths) |->
        Apply(LAMBDA polygon : RecoverPolygon(polygon),
              Polygon(discretize_path(ents, verts, paths[i])))]

(***************************************************************************)
(* The drawings the specifications start from.  Seven vertices: a square   *)
(* (vertices 1..4) and a triangle inside it (vertices 5..7).  A drawing    *)
(* holds any of the candidate entities, each in its stored point order or  *)
(* reversed, in the order of the candidate list.                           *)
(***************************************************************************)
Coords0 == << <<0, 0>>, <<6, 0>>, <<6, 6>>, <<0, 6>>,
              <<2, 2>>, <<4, 2>>, <<2, 4>> >>

Line(a, b)      == [points |-> <<a, b>>,    closed |-> FALSE]
Arc(a, b, c)    == [points |-> <<a, b, c>>, closed |-> FALSE]
Circle(a, b, c) == [points |-> <<a, b, c>>, closed |-> TRUE]

Candidates == << Line(1, 2), Line(3, 4), Arc(1, 2, 3), Line(2, 3), Line(4, 1),
                 Line(5, 6), Line(6, 7), Line(7, 5), Circle(5, 6, 7) >>

\* pick[k] = 0: candidate k absent, 1: as listed, 2: with its points reversed
RECURSIVE Drawing(_, _)
Drawing(pick, k) ==
    IF k > Len(Candidates) THEN <<>>
    ELSE (IF pick[k] = 0 THEN <<>>
          ELSE IF pick[k] = 1 THEN <<Candidates[k]>>
          ELSE <<[Candidates[k] EXCEPT !.points = Reverse(@)]>>)
         \o Drawing(pick, k + 1)

\* the square group alone, the triangle group alone, or the complete square of
\* lines together with the complete triangle of lines or with the circle
Admissible(pick) ==
    LET present == {k \in 1..Len(Candidates) : pick[k] # 0}
    IN  \/ present \subseteq {1, 2, 3, 4, 5}
        \/ present \subseteq {6, 7, 8, 9}
        \/ present = {1, 2, 4, 5, 6, 7, 8}
        \/ present = {1, 2, 4, 5, 9}

Drawings == {Drawing(pick, 1) :
                pick \in {p \in [1..Len(Candidates) -> {0, 1, 2}] : Admissible(p)}}

\* no pipeline run yet
NoRun == [settled |-> FALSE, nodes |-> <<>>, basis |-> <<>>]

\* no call made yet
NoCall ==
    [ op |-> "none", key |-> "none", status |-> "idle", runs |-> 0,
      stale |-> FALSE, ret |-> CacheValue(EmptyCache, "none") ]

NoTree == [raised |-> FALSE, roots |-> <<>>, edges |-> {}]

\* polygons_full not called yet
NoFull == [done |-> FALSE, hole_index |-> <<>>, result |-> <<>>]

\* discretize_path not called yet
NoSample == [done |-> FALSE, path |-> <<>>, raised |-> FALSE, points |-> <<>>]

\* split not called yet
NoParts == [done |-> FALSE, result |-> <<>>]

(***************************************************************************)
(* Specification of the traversal: closed_paths applied to a drawing.      *)
(***************************************************************************)
TInit ==
    /\ vertices = Coords0
    /\ entities \in Drawings
    /\ tphase = "input"
    /\ tresult = [paths |-> <<>>, raised |-> FALSE, given |-> <<>>, basis |-> <<>>]
    /\ cache = EmptyCache /\ stack = <<>> /\ call = NoCall /\ edited = FALSE
    /\ lastrun = NoRun
    /\ polygons = <<>> /\ ephase = "off" /\ eresult = NoTree /\ full = NoFull
    /\ sampled = NoSample /\ parts = NoParts

\* paths = closed_paths(entities, vertices)
ClosedPaths ==
    /\ tphase = "input"
    /\ \E vertex_paths \in cycle_basis(vertex_graph(entities)) :
          LET r == closed_paths(entities, vertices, vertex_paths)
          IN  /\ entities' = r.entities
              /\ tresult' = [paths |-> r.paths, raised |-> r.raised,
                             given |-> entities, basis |-> vertex_paths]
    /\ tphase' = "done"
    /\ UNCHANGED <<vertices, cache, stack, call, edited, lastrun, polygons, ephase,
                   eresult, full, sampled, parts>>

TNext == ClosedPaths

SpecTraversal == TInit /\ [][TNext]_vars

(***************************************************************************)
(* Specification of the path ordering: closed_paths applied to drawings on *)
(* the four corners of the square, with an entity of four points (a        *)
(* polyline through all the corners) and entities that join the same       *)
(* vertices.                                                               *)
(***************************************************************************)
Polyline(a, b, c, d) == [points |-> <<a, b, c, d>>, closed |-> FALSE]

PolyCandidates == << Polyline(1, 2, 3, 4), Line(4, 1), Line(2, 3),
                     Arc(3, 4, 1), Line(1, 2) >>

RECURSIVE PolyDrawing(_, _)
PolyDrawing(pick, k) ==
    IF k > Len(PolyCandidates) THEN <<>>
    ELSE (IF pick[k] = 0 THEN <<>>
          ELSE IF pick[k] = 1 THEN <<PolyCandidates[k]>>
          ELSE <<[PolyCandidates[k] EXCEPT !.points = Reverse(@)]>>)
         \o PolyDrawing(pick, k + 1)

PolyDrawings ==
    {PolyDrawing(pick, 1) : pick \in [1..Len(PolyCandidates) -> {0, 1, 2}]}

OInit ==
    /\ vertices = Coords0
    /\ entities \in PolyDrawings
    /\ tphase = "input"
    /\ tresult = [paths |-> <<>>, raised |-> FALSE, given |-> <<>>, basis |-> <<>>]
    /\ cache = EmptyCache /\ stack = <<>> /\ call = NoCall /\ edited = FALSE
    /\ lastrun = NoRun
    /\ polygons = <<>> /\ ephase = "off" /\ eresult = NoTree /\ full = NoFull
    /\ sampled = NoSample /\ parts = NoParts

SpecOrdering == OInit /\ [][TNext]_vars

(***************************************************************************)
(* Specification of the enclosure tree: polygons_enclosure_tree applied to *)
(* a list of polygons.  The shapes: a square, a triangle T1 inside it, a   *)
(* triangle T2 inside T1, a triangle T3 inside the square and inside the   *)
(* bounding box of T1 but outside T1, a triangle T4 away from all of them, *)
(* and a triangle T5 that crosses the boundary of the square.              *)
(***************************************************************************)
MaxPolygons == 3

Shapes == { Polygon(<< <<0, 0>>, <<12, 0>>, <<12, 12>>, <<0, 12>> >>),
            Polygon(<< <<2, 2>>, <<8, 2>>, <<2, 8>> >>),
            Polygon(<< <<3, 3>>, <<5, 3>>, <<3, 5>> >>),
            Polygon(<< <<7, 7>>, <<8, 7>>, <<7, 8>> >>),
            Polygon(<< <<13, 0>>, <<15, 0>>, <<13, 2>> >>),
            Polygon(<< <<10, 10>>, <<14, 10>>, <<10, 14>> >>) }

PolygonLists == UNION {[1..n -> Shapes \cup {None}] : n \in 0..MaxPolygons}

EInit ==
    /\ polygons \in PolygonLists
    /\ ephase = "input"
    /\ eresult = NoTree /\ full = NoFull
    /\ sampled = NoSample /\ parts = NoParts
    /\ vertices = <<>> /\ entities = <<>>
    /\ cache = EmptyCache /\ stack = <<>> /\ call = NoCall /\ edited = FALSE
    /\ lastrun = NoRun
    /\ tphase = "off"
    /\ tresult = [paths |-> <<>>, raised |-> FALSE, given |-> <<>>, basis |-> <<>>]

\* roots, g = polygons_enclosure_tree(polygons)
EnclosureTree ==
    /\ ephase = "input"
    /\ eresult' = polygons_enclosure_tree(polygons)
    /\ ephase' = "done"
    /\ UNCHANGED <<vertices, entities, cache, stack, call, edited, lastrun, tphase,
                   tresult, polygons, full, sampled, parts>>

ENext == EnclosureTree

SpecEnclosure == EInit /\ [][ENext]_vars

(***************************************************************************)
(* Path2D.connected_paths and Path2D.polygons_full                         *)
(***************************************************************************)
\* enclosure.to_undirected(): the nodes and the edges without direction
Undirected(count, edges) ==
    [nodes |-> 1..count, edges |-> {{e[1], e[2]} : e \in edges}]

\* connected_paths(path_id, include_self): count = len(self.paths);
\* np.setdiff1d answers in ascending order
connected_paths(path_id, include_self, roots, edges, count) ==
    LET path_ids == IF Len(roots) = 1 THEN 1..count
                    ELSE Reach(Undirected(count, edges), {path_id})
    IN  IF include_self THEN SetToSortedSeq(path_ids)
        ELSE SetToSortedSeq(path_ids \ {path_id})

\* polygons_full: for every root, the indices connected_paths answers and
\* the polygon of the root's ring as shell with their rings as holes
polygons_full(polys, roots, edges) ==
    LET hole_index == [k \in 1..Len(roots) |->
                          connected_paths(roots[k], FALSE, roots, edges, Len(polys))]
    IN  [ done       |-> TRUE,
          hole_index |-> hole_index,
          result     |-> [k \in 1..Len(roots) |->
                            [ shell |-> polys[roots[k]].ring,
                              holes |-> [h \in 1..Len(hole_index[k]) |->
                                            polys[hole_index[k][h]].ring] ]] ]

\* self.polygons_full, the enclosure tree being there
PolygonsFull ==
    /\ ephase = "done" /\ ~eresult.raised /\ ~full.done
    /\ full' = polygons_full(polygons, eresult.roots, eresult.edges)
    /\ UNCHANGED <<vertices, entities, cache, stack, call, edited, lastrun, tphase,
                   tresult, polygons, ephase, eresult,
                   sampled, parts>>

HNext == EnclosureTree \/ PolygonsFull

SpecHoles == EInit /\ [][HNext]_vars

(***************************************************************************)
(* Specification of the polygons of a drawing: closed_paths, then          *)
(* generate_discrete, then polygons_enclosure_tree, on drawings of closed  *)
(* entities: a square, the same square with a spike of no width, a         *)
(* triangle inside the square, and apart from them a loop that crosses     *)
(* itself.                                                                 *)
(***************************************************************************)
DCoords == << <<0, 0>>, <<6, 0>>, <<6, 6>>, <<0, 6>>,
              <<2, 2>>, <<4, 2>>, <<2, 4>>,
              <<3, 6>>, <<3, 9>>,
              <<20, 0>>, <<26, 0>>, <<26, 6>>, <<20, 6>> >>

ClosedEntity(points) == [points |-> points, closed |-> TRUE]

DCandidates == << ClosedEntity(<<1, 2, 3, 4>>),
                  ClosedEntity(<<1, 2, 3, 8, 9, 8, 4>>),
                  ClosedEntity(<<5, 6, 7>>),
                  ClosedEntity(<<10, 12, 11, 13>>) >>

RECURSIVE DDrawing(_, _)
DDrawing(pick, k) ==
    IF k > Len(DCandidates) THEN <<>>
    ELSE (IF pick[k] = 0 THEN <<>>
          ELSE IF pick[k] = 1 THEN <<DCandidates[k]>>
          ELSE <<[DCandidates[k] EXCEPT !.points = Reverse(@)]>>)
         \o DDrawing(pick, k + 1)

DDrawings ==
    {DDrawing(pick, 1) : pick \in [1..Len(DCandidates) -> {0, 1, 2}]}

DInit ==
    /\ vertices = DCoords
    /\ entities \in DDrawings
    /\ tphase = "input"
    /\ tresult = [paths |-> <<>>, raised |-> FALSE, given |-> <<>>, basis |-> <<>>]
    /\ cache = EmptyCache /\ stack = <<>> /\ call = NoCall /\ edited = FALSE
    /\ lastrun = NoRun
    /\ polygons = <<>> /\ ephase = "wait" /\ eresult = NoTree /\ full = NoFull
    /\ sampled = NoSample /\ parts = NoParts

\* polygons = generate_discrete of the paths closed_paths returned
DiscretizePaths ==
    /\ tphase = "done" /\ ~tresult.raised /\ ephase = "wait"
    /\ polygons' = generate_discrete(entities, vertices, tresult.paths)
    /\ ephase' = "input"
    /\ UNCHANGED <<vertices, entities, cache, stack, call, edited, lastrun, tphase,
                   tresult, eresult, full, sampled, parts>>

DNext == ClosedPaths \/ DiscretizePaths \/ EnclosureTree

SpecDiscrete == DInit /\ [][DNext]_vars

(***************************************************************************)
(* Path2D.split                                                            *)
(***************************************************************************)
\* the orders in which list(set) may hand out the members of S
Orderings(S) == {s \in [1..Cardinality(S) -> S] : Range(s) = S}

\* for every root, an order of connected_paths(root, include_self=True)
ConnectedOrders(roots, edges, count) ==
    LET comp(i) == Range(connected_paths(roots[i], TRUE, roots, edges, count))
    IN  {f \in [1..Len(roots) -> UNION {Orderings(comp(i)) : i \in 1..Len(roots)}] :
            \A i \in 1..Len(roots) : Range(f[i]) = comp(i)}

\* the part of one root with the entity count of the whole drawing cached
split_part_CountOfOriginal(ents, verts, paths, polys, root, connected) ==
    LET picked   == [k \in 1..Len(connected) |-> paths[connected[k]]]
        new_entities == Flatten(picked)
        before(k) == Len(Flatten(SubSeq(picked, 1, k - 1)))
    IN  [ entities |-> [j \in 1..Len(new_entities) |-> ents[new_entities[j]]],
          vertices |-> verts,
          cache    |-> [ keys |-> {"entity_count", "paths", "polygons_closed",
                                   "metadata", "root"},
                         entity_count    |-> Len(ents),
                         paths           |-> [k \in 1..Len(picked) |->
                                                [j \in 1..Len(picked[k]) |->
                                                    j + before(k)]],
                         polygons_closed |-> [k \in 1..Len(connected) |->
                                                polys[connected[k]]],
                         root            |-> SetToSortedSeq(
                                                {k \in 1..Len(connected) :
                                                    connected[k] = root}) ] ]

\* one pass of the loop over self.root: the Path2D built for root, connected
\* being connected_paths(root, include_self=True)
split_part(ents, verts, paths, polys, root, connected) ==
    LET picked   == [k \in 1..Len(connected) |-> paths[connected[k]]]
        new_entities == Flatten(picked)
        before(k) == Len(Flatten(SubSeq(picked, 1, k - 1)))
    IN  [ entities |-> [j \in 1..Len(new_entities) |-> ents[new_entities[j]]],
          vertices |-> verts,
          cache    |-> [ keys |-> {"entity_count", "paths", "polygons_closed",
                                   "metadata", "root"},
                         entity_count    |-> Len(new_entities),
                         paths           |-> [k \in 1..Len(picked) |->
                                                [j \in 1..Len(picked[k]) |->
                                                    j + before(k)]],
                         polygons_closed |-> [k \in 1..Len(connected) |->
                                                polys[connected[k]]],
                         root            |-> SetToSortedSeq(
                                                {k \in 1..Len(connected) :
                                                    connected[k] = root}) ] ]

\* split(): a copy of the drawing with its cache when there is one root,
\* else one part for every root
split(ents, verts, paths, polys, roots, orders) ==
    IF Len(roots) = 1
    THEN << [ entities |-> ents,
              vertices |-> verts,
              cache    |-> [ keys |-> {"entity_count", "paths", "polygons_closed",
                                       "root", "enclosure", "enclosure_directed",
                                       "processing"},
                             entity_count    |-> Len(ents),
                             paths           |-> paths,
                             polygons_closed |-> polys,
                             root            |-> roots ] ] >>
    ELSE [i \in 1..Len(roots) |->
            split_part(ents, verts, paths, polys, roots[i], orders[i])]

(***************************************************************************)
(* Specification of split: the pipeline applied to drawings of a square    *)
(* with a triangle of lines inside, a far triangle of lines and a far      *)
(* square, and split applied to the result.                                *)
(***************************************************************************)
PartCandidates == << ClosedEntity(<<1, 2, 3, 4>>),
                     Line(5, 6), Line(6, 7), Line(7, 5),
                     Line(10, 11), Line(11, 12), Line(12, 10) >>

RECURSIVE PartDrawing(_, _)
PartDrawing(pick, k) ==
    IF k > Len(PartCandidates) THEN <<>>
    ELSE (IF pick[k] = 0 THEN <<>>
          ELSE IF pick[k] = 1 THEN <<PartCandidates[k]>>
          ELSE <<[PartCandidates[k] EXCEPT !.points = Reverse(@)]>>)
         \o PartDrawing(pick, k + 1)

PartDrawings ==
    {PartDrawing(pick, 1) : pick \in [1..Len(PartCandidates) -> {0, 1, 2}]}

PInit ==
    /\ vertices = DCoords
    /\ entities \in PartDrawings
    /\ tphase = "input"
    /\ tresult = [paths |-> <<>>, raised |-> FALSE, given |-> <<>>, basis |-> <<>>]
    /\ cache = EmptyCache /\ stack = <<>> /\ call = NoCall /\ edited = FALSE
    /\ lastrun = NoRun
    /\ polygons = <<>> /\ ephase = "wait" /\ eresult = NoTree /\ full = NoFull
    /\ sampled = NoSample /\ parts = NoParts

\* parts = self.split(), the pipeline having run
Split ==
    /\ ephase = "done" /\ ~eresult.raised /\ ~parts.done
    /\ \E orders \in ConnectedOrders(eresult.roots, eresult.edges, Len(polygons)) :
          parts' = [done   |-> TRUE,
                    result |-> split(entities, vertices, tresult.paths, polygons,
                                     eresult.roots, orders)]
    /\ UNCHANGED <<vertices, entities, cache, stack, call, edited, lastrun, tphase,
                   tresult, polygons, ephase, eresult, full, sampled>>

PNext == ClosedPaths \/ DiscretizePaths \/ EnclosureTree \/ Split

SpecSplit == PInit /\ [][PNext]_vars

(***************************************************************************)
(* Specification of the vertex table: merge_vertices and                   *)
(* remove_unreferenced_vertices applied to small tables, with vertices at  *)
(* the same place, vertices no entity refers to and entities that join two *)
(* vertices at the same place.                                             *)
(***************************************************************************)
MaxVertices == 3

Places == {<<0, 0>>, <<1, 0>>}

VertexTables == UNION {[1..n -> Places] : n \in 0..MaxVertices}

\* open entities of two or three points among n vertices
EntitiesOn(n) ==
    {[points |-> pts, closed |-> FALSE] :
        pts \in [1..2 -> 1..n] \cup [1..3 -> 1..n]}

\* no entity, one entity or two entities
EntityLists(n) ==
    {<<>>} \cup {<<e>> : e \in EntitiesOn(n)}
           \cup {<<e1, e2>> : e1 \in EntitiesOn(n), e2 \in EntitiesOn(n)}

VInit ==
    /\ vertices \in VertexTables
    /\ entities \in EntityLists(Len(vertices))
    /\ tphase = "table"
    /\ tresult = [paths |-> <<>>, raised |-> FALSE, given |-> <<>>, basis |-> <<>>]
    /\ cache = EmptyCache /\ stack = <<>> /\ call = NoCall /\ edited = FALSE
    /\ lastrun = NoRun
    /\ polygons = <<>> /\ ephase = "off" /\ eresult = NoTree /\ full = NoFull
    /\ sampled = NoSample /\ parts = NoParts

\* path.merge_vertices() on the table
TableMergeVertices ==
    /\ tphase = "table"
    /\ LET r == merge_vertices(vertices, entities)
       IN  vertices' = r.vertices /\ entities' = r.entities
    /\ tphase' = "merged"
    /\ tresult' = [tresult EXCEPT !.given = entities]
    /\ UNCHANGED <<cache, stack, call, edited, lastrun, polygons, ephase, eresult,
                   full, sampled, parts>>

\* path.remove_unreferenced_vertices() on the table, merged or not
TableRemoveUnreferenced ==
    /\ tphase \in {"table", "merged"}
    /\ LET r == remove_unreferenced_vertices(vertices, entities)
       IN  vertices' = r.vertices /\ entities' = r.entities
    /\ tphase' = "removed"
    /\ tresult' = [tresult EXCEPT !.given = entities]
    /\ UNCHANGED <<cache, stack, call, edited, lastrun, polygons, ephase, eresult,
                   full, sampled, parts>>

VNext == TableMergeVertices \/ TableRemoveUnreferenced

SpecTables == VInit /\ [][VNext]_vars

(***************************************************************************)
(* Specification of the sampling: discretize_path applied to any sequence  *)
(* of at most MaxPathLen entity indices of a drawing of lines, an arc and  *)
(* a circle.                                                               *)
(***************************************************************************)
MaxPathLen == 3

SCandidates == << Line(1, 2), Arc(2, 3, 4), Line(4, 1), Circle(5, 6, 7) >>

RECURSIVE SDrawing(_, _)
SDrawing(pick, k) ==
    IF k > Len(SCandidates) THEN <<>>
    ELSE (IF pick[k] = 0 THEN <<>>
          ELSE IF pick[k] = 1 THEN <<SCandidates[k]>>
          ELSE <<[SCandidates[k] EXCEPT !.points = Reverse(@)]>>)
         \o SDrawing(pick, k + 1)

SDrawings ==
    {SDrawing(pick, 1) : pick \in [1..Len(SCandidates) -> {0, 1, 2}]}

SInit ==
    /\ vertices = Coords0
    /\ entities \in SDrawings
    /\ tphase = "off"
    /\ tresult = [paths |-> <<>>, raised |-> FALSE, given |-> <<>>, basis |-> <<>>]
    /\ cache = EmptyCache /\ stack = <<>> /\ call = NoCall /\ edited = FALSE
    /\ lastrun = NoRun
    /\ polygons = <<>> /\ ephase = "off" /\ eresult = NoTree /\ full = NoFull
    /\ sampled = NoSample /\ parts = NoParts

\* discretize_path(entities, vertices, path)
DiscretizePath ==
    /\ ~sampled.done
    /\ \E path \in UNION {[1..n -> 1..Len(entities)] : n \in 0..MaxPathLen} :
          LET points == discretize_path(entities, vertices, path)
          IN  sampled' = [ done   |-> TRUE,
                           path   |-> path,
                           raised |-> points = <<>>,
                           points |-> points ]
    /\ UNCHANGED <<vertices, entities, cache, stack, call, edited, lastrun, tphase,
                   tresult, polygons, ephase, eresult, full, parts>>

SNext == DiscretizePath

SpecSampling == SInit /\ [][SNext]_vars

(***************************************************************************)
(* Specification of a Path2D object in use: reads of derived values, the   *)
(* pipeline they start, and the operations a user calls between reads.     *)
(* A read, and process(), run to completion before the user's next call;   *)
(* stack holds one frame per process() call that has not returned, and a   *)
(* frame tells the stage to run next and what the stage has computed.      *)
(***************************************************************************)
\* the drawings a Path2D is made from: a square around a circle, the square
\* made of two lines and of a line of three points that runs clockwise
\* through the corner (0, 0);
\* a triangle of lines whose first corner is stored twice, with one line
\* entered twice and a vertex no entity uses; a square made of a polyline
\* of four points and a closing line entered twice
Worlds ==
    { [ vertices |-> Coords0,
        entities |-> << [points |-> <<2, 1, 4>>, closed |-> FALSE],
                        Line(2, 3), Line(3, 4), Circle(5, 6, 7) >> ],
      [ vertices |-> << <<0, 0>>, <<6, 0>>, <<0, 6>>, <<0, 0>>, <<9, 9>> >>,
        entities |-> << Line(1, 2), Line(2, 3), Line(3, 4), Line(2, 1) >> ],
      [ vertices |-> << <<0, 0>>, <<6, 0>>, <<6, 6>>, <<0, 6>> >>,
        entities |-> << [points |-> <<1, 2, 3, 4>>, closed |-> FALSE],
                        Line(4, 1), Line(1, 4) >> ] }

\* the direct edits of a vertex: from a position to a position
Moves == { << <<6, 6>>, <<8, 8>> >>, << <<8, 8>>, <<6, 6>> >> }

\* a frame of process() about to run its first stage
NewFrame ==
    [ pc |-> "merge_vertices", paths |-> <<>>, polygons |-> <<>>, tree |-> NoTree,
      given |-> <<>> ]

\* ... which remembers the entities it was called with
Frame(ents) == [NewFrame EXCEPT !.given = ents]

\* a change by the caller, or a failed run: what the next run of cycle_basis
\* reports is open again
Unsettled == NoRun

\* a call that raised leaves no completed run behind
LastAfter(c) == IF c.status = "raised" THEN Unsettled ELSE lastrun

\* the edges in the order vertex_graph adds them to the graph
Construction(ents) ==
    Flatten([i \in 1..Len(ents) |->
                IF ents[i].closed THEN <<>> ELSE Nodes(ents[i])])

\* what cycle_basis reports for the graph of ents: any basis, but the one it
\* reported before when the graph is built by the same additions
Reports(ents) ==
    IF lastrun.nodes = Construction(ents) /\ lastrun.nodes # <<>>
    THEN {lastrun.basis}
    ELSE cycle_basis(vertex_graph(ents))

Top == stack[Len(stack)]

Pop == SubSeq(stack, 1, Len(stack) - 1)

SetTop(frame) == [stack EXCEPT ![Len(stack)] = frame]

Idle == call.status # "running" /\ stack = <<>>

Returned(op) == [NoCall EXCEPT !.op = op, !.status = "returned"]

Init ==
    /\ \E w \in Worlds : vertices = w.vertices /\ entities = w.entities
    /\ cache = EmptyCache /\ stack = <<>> /\ call = NoCall /\ edited = FALSE
    /\ lastrun = NoRun
    /\ tphase = "off" /\ tresult = [paths |-> <<>>, raised |-> FALSE,
                                     given |-> <<>>, basis |-> <<>>]
    /\ polygons = <<>> /\ ephase = "off" /\ eresult = NoTree /\ full = NoFull
    /\ sampled = NoSample /\ parts = NoParts

Aside == <<tphase, tresult, polygons, ephase, eresult, full, sampled, parts>>

\* _cache_verify on a cache that is not in order: the cache is emptied and
\* process() is called, which sets the flag and runs the stages
VerifyFailed ==
    /\ cache' = [CacheReset(entities) EXCEPT
                    !.keys = @ \cup {"processing"}, !.processing = TRUE]
    /\ stack' = Append(stack, Frame(entities))
    /\ edited' = FALSE
    /\ lastrun' = Unsettled

\* an exception leaves every call in progress
Raise ==
    /\ stack' = <<>>
    /\ call' = [call EXCEPT !.status = "raised"]

At(pc) == stack # <<>> /\ Top.pc = pc

Goto(pc) == stack' = SetTop([Top EXCEPT !.pc = pc])

\* a property read: _cache_get(key).  _cache_verify either finds the cache in
\* order and the value is returned at once, or empties the cache and calls
\* process(), after which Finish returns the value
Read(key) ==
    /\ Idle
    /\ IF CacheOk(cache, entities)
       THEN /\ call' = [NoCall EXCEPT !.op = "get", !.key = key,
                                      !.status = "returned",
                                      !.stale = ~EntityOk(cache, entities),
                                      !.ret = CacheValue(cache, key)]
            /\ UNCHANGED <<cache, stack, edited, lastrun>>
       ELSE /\ call' = [NoCall EXCEPT !.op = "get", !.key = key,
                                      !.status = "running", !.runs = 1,
                                      !.stale = TRUE]
            /\ VerifyFailed
    /\ UNCHANGED <<vertices, entities, Aside>>

\* process() called by the user: the pipeline on the cache as it is
Process ==
    /\ Idle
    /\ call' = [NoCall EXCEPT !.op = "process", !.status = "running", !.runs = 1]
    /\ cache' = [cache EXCEPT !.keys = @ \cup {"processing"}, !.processing = TRUE]
    /\ stack' = <<Frame(entities)>>
    /\ UNCHANGED <<vertices, entities, edited, lastrun, Aside>>

\* first stage: merge_vertices
StageMergeVertices ==
    /\ At("merge_vertices")
    /\ LET r == merge_vertices(vertices, entities)
       IN  vertices' = r.vertices /\ entities' = r.entities
    /\ Goto("remove_duplicate_entities")
    /\ UNCHANGED <<cache, call, edited, lastrun, Aside>>

\* second stage: remove_duplicate_entities
StageRemoveDuplicateEntities ==
    /\ At("remove_duplicate_entities")
    /\ entities' = remove_duplicate_entities(entities)
    /\ Goto("generate_closed_paths")
    /\ UNCHANGED <<vertices, cache, call, edited, lastrun, Aside>>

\* third stage, generate_closed_paths: paths = closed_paths(entities, vertices)
GenerateClosedPaths ==
    /\ At("generate_closed_paths")
    /\ \E vertex_paths \in Reports(entities) :
          LET r == closed_paths(entities, vertices, vertex_paths)
          IN  /\ entities' = r.entities
              /\ IF r.raised
                 THEN Raise
                 ELSE /\ stack' = SetTop([Top EXCEPT !.pc = "put_paths",
                                                     !.paths = r.paths])
                      /\ UNCHANGED call
              /\ lastrun' = [settled |-> lastrun.settled /\ ~r.raised,
                          nodes   |-> Construction(entities),
                          basis   |-> vertex_paths]
    /\ UNCHANGED <<vertices, cache, edited, Aside>>

\* ... and _cache_put('paths', paths)
PutPaths ==
    /\ At("put_paths")
    /\ IF CacheOk(cache, entities)
       THEN /\ cache' = [cache EXCEPT !.keys = @ \cup {"paths"},
                                      !.paths = Top.paths]
            /\ Goto("generate_discrete")
            /\ UNCHANGED <<call, edited, lastrun>>
       ELSE /\ VerifyFailed
            /\ call' = [call EXCEPT !.runs = @ + 1]
    /\ UNCHANGED <<vertices, entities, Aside>>

\* fourth stage, generate_discrete: a polygon for each of self.paths
GenerateDiscrete ==
    /\ At("generate_discrete")
    /\ IF CacheOk(cache, entities)
       THEN /\ IF \/ "paths" \notin cache.keys
                  \/ \E i \in 1..Len(cache.paths) : Len(cache.paths[i]) = 0
               THEN Raise
               ELSE /\ stack' = SetTop([Top EXCEPT
                            !.pc = "put_polygons_closed",
                            !.polygons = generate_discrete(entities, vertices,
                                                           cache.paths)])
                    /\ UNCHANGED call
            /\ UNCHANGED <<cache, edited>>
            /\ lastrun' = LastAfter(call')
       ELSE /\ VerifyFailed
            /\ call' = [call EXCEPT !.runs = @ + 1]
    /\ UNCHANGED <<vertices, entities, Aside>>

\* ... and _cache_put('polygons_closed', polygons)
PutPolygonsClosed ==
    /\ At("put_polygons_closed")
    /\ IF CacheOk(cache, entities)
       THEN /\ cache' = [cache EXCEPT !.keys = @ \cup {"polygons_closed"},
                                      !.polygons_closed = Top.polygons]
            /\ Goto("generate_enclosure_tree")
            /\ UNCHANGED <<call, edited, lastrun>>
       ELSE /\ VerifyFailed
            /\ call' = [call EXCEPT !.runs = @ + 1]
    /\ UNCHANGED <<vertices, entities, Aside>>

\* fifth stage, generate_enclosure_tree:
\* root, enclosure = polygons_enclosure_tree(self.polygons_closed)
GenerateEnclosureTree ==
    /\ At("generate_enclosure_tree")
    /\ IF CacheOk(cache, entities)
       THEN /\ IF "polygons_closed" \notin cache.keys
               THEN Raise
               ELSE LET r == polygons_enclosure_tree(cache.polygons_closed)
                    IN  IF r.raised
                        THEN Raise
                        ELSE /\ stack' = SetTop([Top EXCEPT !.pc = "put_tree",
                                                            !.tree = r])
                             /\ UNCHANGED call
            /\ UNCHANGED <<cache, edited>>
            /\ lastrun' = LastAfter(call')
       ELSE /\ VerifyFailed
            /\ call' = [call EXCEPT !.runs = @ + 1]
    /\ UNCHANGED <<vertices, entities, Aside>>

\* ... and the three _cache_put of root, enclosure and enclosure_directed
PutTree ==
    /\ At("put_tree")
    /\ IF CacheOk(cache, entities)
       THEN /\ cache' = [cache EXCEPT
                    !.keys = @ \cup {"root", "enclosure", "enclosure_directed"},
                    !.root = Top.tree.roots,
                    !.enclosure_directed = Top.tree.edges]
            /\ Goto("finish")
            /\ UNCHANGED <<call, edited, lastrun>>
       ELSE /\ VerifyFailed
            /\ call' = [call EXCEPT !.runs = @ + 1]
    /\ UNCHANGED <<vertices, entities, Aside>>

\* the end of process(): the flag is reset and the entity count recorded;
\* the outermost process() returns to the user's call, and a read then
\* returns the value of its key; polygons_full goes on after its _cache_get
Finish ==
    /\ At("finish")
    /\ cache' = [cache EXCEPT !.keys = @ \cup {"processing", "entity_count"},
                              !.processing = FALSE,
                              !.entity_count = Len(entities)]
    /\ stack' = Pop
    /\ call' = IF Len(stack) > 1 \/ call.op = "polygons_full" THEN call
               ELSE [call EXCEPT !.status = "returned",
                                 !.ret = IF call.op = "get"
                                         THEN CacheValue(cache', call.key)
                                         ELSE @]
    /\ lastrun' = [lastrun EXCEPT !.settled = (Len(stack) = 1)]
    /\ UNCHANGED <<vertices, entities, edited, Aside>>

\* the user calls merge_vertices()
MergeVertices ==
    /\ Idle
    /\ LET r == merge_vertices(vertices, entities)
       IN  vertices' = r.vertices /\ entities' = r.entities
    /\ call' = Returned("merge_vertices")
    /\ lastrun' = Unsettled
    /\ UNCHANGED <<cache, stack, edited, Aside>>

\* the user calls remove_duplicate_entities()
RemoveDuplicateEntities ==
    /\ Idle
    /\ entities' = remove_duplicate_entities(entities)
    /\ call' = Returned("remove_duplicate_entities")
    /\ lastrun' = Unsettled
    /\ UNCHANGED <<vertices, cache, stack, edited, Aside>>

\* the user calls remove_unreferenced_vertices()
RemoveUnreferencedVertices ==
    /\ Idle
    /\ LET r == remove_unreferenced_vertices(vertices, entities)
       IN  vertices' = r.vertices /\ entities' = r.entities
    /\ call' = Returned("remove_unreferenced_vertices")
    /\ lastrun' = Unsettled
    /\ UNCHANGED <<cache, stack, edited, Aside>>

\* the user calls transform(matrix): the cache is emptied first
Transform ==
    /\ Idle
    /\ cache' = EmptyCache
    /\ vertices' = transform(vertices)
    /\ edited' = FALSE
    /\ call' = Returned("transform")
    /\ lastrun' = Unsettled
    /\ UNCHANGED <<entities, stack, Aside>>

\* the user writes a row of the vertex table: vertices[i] = m[2]
EditVertex(i, m) ==
    /\ Idle
    /\ vertices[i] = m[1]
    /\ vertices' = [vertices EXCEPT ![i] = m[2]]
    /\ edited' = (cache # EmptyCache)
    /\ call' = Returned("edit")
    /\ lastrun' = Unsettled
    /\ UNCHANGED <<entities, cache, stack, Aside>>

\* _cache_clear, as the user calls it or as set_units does
CacheClear ==
    /\ Idle
    /\ cache' = EmptyCache
    /\ edited' = FALSE
    /\ call' = Returned("clear")
    /\ lastrun' = Unsettled
    /\ UNCHANGED <<vertices, entities, stack, Aside>>

Step ==
    \/ StageMergeVertices
    \/ StageRemoveDuplicateEntities
    \/ GenerateClosedPaths
    \/ PutPaths
    \/ GenerateDiscrete
    \/ PutPolygonsClosed
    \/ GenerateEnclosureTree
    \/ PutTree
    \/ Finish

Next ==
    \/ \E key \in Derived : Read(key)
    \/ Process
    \/ Step
    \/ MergeVertices
    \/ RemoveDuplicateEntities
    \/ RemoveUnreferencedVertices
    \/ Transform
    \/ \E i \in 1..Len(vertices) : \E m \in Moves : EditVertex(i, m)
    \/ CacheClear

Spec == Init /\ [][Next]_vars

(***************************************************************************)
(* Path2D.polygons_full read through the cache.  The specification of the  *)
(* cache with this property among the user's calls.                        *)
(***************************************************************************)
\* cached = self._cache_get('polygons_full'): the cache is verified, which
\* may start the pipeline
ReadPolygonsFull ==
    /\ Idle
    /\ IF CacheOk(cache, entities)
       THEN /\ call' = [NoCall EXCEPT !.op = "polygons_full",
                                      !.key = "polygons_full",
                                      !.status = "running",
                                      !.stale = ~EntityOk(cache, entities)]
            /\ UNCHANGED <<cache, stack, edited, lastrun>>
       ELSE /\ call' = [NoCall EXCEPT !.op = "polygons_full",
                                      !.key = "polygons_full",
                                      !.status = "running", !.runs = 1,
                                      !.stale = TRUE]
            /\ VerifyFailed
    /\ UNCHANGED <<vertices, entities, Aside>>

\* the rest of polygons_full, the cache being verified: the cached list is
\* returned if there is one that is not empty; else the list is built of
\* root, enclosure, paths and polygons_closed as the cache holds them and
\* put into the cache; len(self.root) raises when the cache has no root
BuildPolygonsFull ==
    /\ call.op = "polygons_full" /\ call.status = "running" /\ stack = <<>>
    /\ IF "polygons_full" \in cache.keys /\ cache.polygons_full # <<>>
       THEN /\ call' = [call EXCEPT !.status = "returned"]
            /\ UNCHANGED cache
       ELSE IF "root" \notin cache.keys
       THEN /\ call' = [call EXCEPT !.status = "raised"]
            /\ UNCHANGED cache
       ELSE /\ cache' = [cache EXCEPT
                    !.keys = @ \cup {"polygons_full"},
                    !.polygons_full =
                        polygons_full(cache.polygons_closed, cache.root,
                                      cache.enclosure_directed).result]
            /\ call' = [call EXCEPT !.status = "returned"]
    /\ UNCHANGED <<vertices, entities, stack, edited, lastrun, Aside>>

FNext == Next \/ ReadPolygonsFull \/ BuildPolygonsFull

SpecFull == Init /\ [][FNext]_vars

\* a call runs to its end: process() is a loop over five stages
SpecLive == Spec /\ WF_vars(Step)

(***************************************************************************)
(* Properties of the traversal                                             *)
(***************************************************************************)
\* twice the signed area of a point sequence read as a closed ring (shoelace
\* formula): positive when counter-clockwise
SignedArea2(pts) ==
    SumSeq([i \in 1..Len(pts) |->
              LET a == pts[i]
                  b == pts[(i % Len(pts)) + 1]
              IN  a[1] * b[2] - b[1] * a[2]])

\* how many edges the entities contribute at vertex v, each entity counting
\* its own edges (a self loop counts twice)
EntityDegree(ents, v) ==
    Cardinality({ik \in UNION {{<<i, k>> : k \in 1..Len(Nodes(ents[i]))} :
                                 i \in OpenIndices(ents)} :
                    v \in {Nodes(ents[ik[1]])[ik[2]][1], Nodes(ents[ik[1]])[ik[2]][2]}})
    + Cardinality({i \in OpenIndices(ents) : {v} \in EdgesOf(ents[i])})

\* the vertex graph of ents is a disjoint union of simple loops: no self
\* loop, no two entities joining the same pair of vertices, and every vertex
\* of degree exactly 2
SimpleLoops(ents) ==
    /\ \A i \in OpenIndices(ents) :
          /\ \A ed \in EdgesOf(ents[i]) : Cardinality(ed) = 2
          /\ Cardinality(EdgesOf(ents[i])) = Len(ents[i].points) - 1
          /\ \A j \in OpenIndices(ents) :
                i # j => EdgesOf(ents[i]) \cap EdgesOf(ents[j]) = {}
    /\ \A v \in vertex_graph(ents).nodes : EntityDegree(ents, v) = 2

\* C5: after closed_paths on entities whose vertex graph has every vertex of
\* degree 2, in every returned path of two or more entities each entity ends
\* (in its point order as flipped in place) on the vertex the next entity of
\* the path starts from, the last entity wrapping round to the first.
C5_ConsecutiveShareVertex ==
    (tphase = "done" /\ SimpleLoops(tresult.given)) =>
        /\ ~tresult.raised
        /\ \A p \in 1..Len(tresult.paths) :
              LET path == tresult.paths[p]
              IN  Len(path) >= 2 =>
                    \A k \in 1..Len(path) :
                        EndPoints(entities[path[k]])[2] =
                            EndPoints(entities[path[(k % Len(path)) + 1]])[1]

\* a loop of two or more entities was ordered, and some entity was flipped
C5_Witness ==
    /\ tphase = "done" /\ SimpleLoops(tresult.given)
    /\ \E p \in 1..Len(tresult.paths) : Len(tresult.paths[p]) >= 2
    /\ entities # tresult.given

\* C6: every path closed_paths returns, single closed entities included,
\* discretizes to a point sequence of non-negative signed area.
C6_AllPathsCounterClockwise ==
    (tphase = "done" /\ ~tresult.raised) =>
        \A p \in 1..Len(tresult.paths) :
            SignedArea2(discretize_path(entities, vertices, tresult.paths[p])) >= 0

\* the same for the paths of two or more entities of a well-formed drawing
C6_LoopsCounterClockwise ==
    (tphase = "done" /\ ~tresult.raised /\ SimpleLoops(tresult.given)) =>
        \A p \in 1..Len(tresult.paths) :
            Len(tresult.paths[p]) >= 2 =>
              SignedArea2(discretize_path(entities, vertices, tresult.paths[p])) > 0

Valid(i) == i \in 1..Len(polygons) /\ ~polygons[i].none

\* the two polygons bound the same region: the same corner points
SameRegion(a, b) == Range(a.ring) = Range(b.ring)

\* C8 as claimed: for distinct valid polygons i, j the graph holds i -> j
\* exactly when polygon i contains polygon j, and never both i -> j and j -> i.
C8_EdgeIffContains_Claimed ==
    (ephase = "done" /\ ~eresult.raised) =>
        \A i, j \in 1..Len(polygons) :
            (i # j /\ Valid(i) /\ Valid(j)) =>
                /\ (<<i, j>> \in eresult.edges) <=> Contains(polygons[i], polygons[j])
                /\ ~(<<i, j>> \in eresult.edges /\ <<j, i>> \in eresult.edges)

\* C8 amended: for distinct valid polygons i, j the graph holds i -> j exactly
\* when polygon i contains polygon j, and it holds both i -> j and j -> i only
\* for two polygons that bound the same region.
C8_EdgeIffContains ==
    (ephase = "done" /\ ~eresult.raised) =>
        \A i, j \in 1..Len(polygons) :
            (i # j /\ Valid(i) /\ Valid(j)) =>
                /\ (<<i, j>> \in eresult.edges) <=> Contains(polygons[i], polygons[j])
                /\ (<<i, j>> \in eresult.edges /\ <<j, i>> \in eresult.edges)
                      => SameRegion(polygons[i], polygons[j])

\* a containment found although a third polygon shares the bounding box of
\* the inner one without being contained
C8_Witness ==
    /\ ephase = "done" /\ ~eresult.raised
    /\ \E i, j, k \in 1..Len(polygons) :
          /\ <<i, j>> \in eresult.edges /\ <<j, i>> \notin eresult.edges
          /\ k \notin {i, j}
          /\ BoxesIntersect(Bounds(polygons[j]), Bounds(polygons[k]))
          /\ <<j, k>> \notin eresult.edges /\ <<k, j>> \notin eresult.edges

\* C9: the root list is exactly the polygons contained in no other polygon;
\* the outer square with one inner polygon gives the root list [outer] and
\* the single edge outer -> inner.
C9_RootsAreUncontained ==
    (ephase = "done" /\ ~eresult.raised) =>
        /\ Range(eresult.roots) =
              {j \in 1..Len(polygons) :
                  ~\E i \in 1..Len(polygons) :
                      i # j /\ Contains(polygons[i], polygons[j])}
        /\ Len(eresult.roots) = Cardinality(Range(eresult.roots))
        /\ \A o, n \in 1..Len(polygons) :
              ( /\ Len(polygons) = 2 /\ o # n
                /\ Contains(polygons[o], polygons[n])
                /\ ~Contains(polygons[n], polygons[o]) )
              => (eresult.roots = <<o>> /\ eresult.edges = {<<o, n>>})

\* two disjoint outer boundaries, one of them with a polygon inside
C9_Witness ==
    /\ ephase = "done" /\ ~eresult.raised
    /\ Len(eresult.roots) = 2
    /\ Cardinality(eresult.edges) = 1

\* the boundaries of a and b meet or one lies within the other
BoundariesMeet(a, b) ==
    \E i \in 1..Len(a.ring), j \in 1..Len(b.ring) :
        SegmentsMeet(a.ring[i], a.ring[(i % Len(a.ring)) + 1],
                     b.ring[j], b.ring[(j % Len(b.ring)) + 1])

\* the polygons are mutually non-overlapping: no two boundaries meet
NonOverlapping(polys) ==
    \A i, j \in 1..Len(polys) : i # j => ~BoundariesMeet(polys[i], polys[j])

RECURSIVE ReachableFrom(_, _)
ReachableFrom(edges, S) ==
    LET T == S \cup {e[2] : e \in {d \in edges : d[1] \in S}}
    IN  IF T = S THEN S ELSE ReachableFrom(edges, T)

Acyclic(edges) ==
    \A e \in edges : e[1] \notin ReachableFrom(edges, {e[2]})

\* C10: the containment graph of mutually non-overlapping polygons is
\* acyclic, and a non-empty list of them has at least one root.
C10_Acyclic ==
    (ephase = "done" /\ ~eresult.raised /\ NonOverlapping(polygons)) =>
        /\ Acyclic(eresult.edges)
        /\ Len(polygons) > 0 => Len(eresult.roots) > 0

\* three polygons nested in one another
C10_Witness ==
    /\ ephase = "done" /\ ~eresult.raised /\ NonOverlapping(polygons)
    /\ \E i, j, k \in 1..Len(polygons) :
          {<<i, j>>, <<j, k>>, <<i, k>>} \subseteq eresult.edges

(***************************************************************************)
(* Properties of the cache                                                 *)
(***************************************************************************)
FlagSet == "processing" \in cache.keys /\ cache.processing

CountMatches == "entity_count" \in cache.keys /\ cache.entity_count = Len(entities)

\* the cached polygons and tree are those of the present vertices and entities
Fresh ==
    /\ {"paths", "polygons_closed", "root", "enclosure_directed"} \subseteq cache.keys
    /\ cache.polygons_closed = generate_discrete(entities, vertices, cache.paths)
    /\ LET r == polygons_enclosure_tree(cache.polygons_closed)
       IN  cache.root = r.roots /\ cache.enclosure_directed = r.edges

\* C1: a read made while no pipeline is running and the cached entity count
\* is absent or differs from the number of entities has run the pipeline
\* exactly once when it returns, and the cache then holds the processing
\* flag reset and the present number of entities.
C1_StaleReadRunsPipeline ==
    (call.op = "get" /\ call.status = "returned" /\ call.stale)
        => /\ call.runs = 1
           /\ ~FlagSet
           /\ CountMatches

\* the same, for reads that find the processing flag not set
C1_WhenFlagNotSet ==
    (call.op = "get" /\ call.status = "returned" /\ call.stale /\ ~FlagSet)
        => /\ call.runs = 1
           /\ CountMatches

\* C2: a cache access of a stage starts no pipeline run while the flag is
\* set, at most one process() call is active, generate_discrete and
\* generate_enclosure_tree find in the cache the paths and the polygons the
\* stage before them stored, and every call in progress comes to its end.
C2_StagesNeverRestart ==
    /\ [][(Step /\ FlagSet) => Len(stack') <= Len(stack)]_vars
    /\ [](Len(stack) <= 1)
    /\ [](At("generate_discrete")
            => "paths" \in cache.keys /\ cache.paths = Top.paths)
    /\ [](At("generate_enclosure_tree")
            => /\ "polygons_closed" \in cache.keys
               /\ cache.polygons_closed = Top.polygons)
    /\ [](call.status = "running" => <>(call.status # "running"))

\* a stage reads the polygons while only the flag keeps the cache in order:
\* duplicate removal has changed the number of entities
C2_Witness ==
    /\ At("generate_enclosure_tree")
    /\ Len(cache.polygons_closed) >= 1
    /\ FlagSet /\ ~CountMatches

\* C3: when merge_vertices, remove_duplicate_entities,
\* remove_unreferenced_vertices or transform returns to the user, the cache
\* is empty.
C3_MutationsClearCache ==
    (call.status = "returned" /\
     call.op \in {"merge_vertices", "remove_duplicate_entities",
                  "remove_unreferenced_vertices", "transform"})
        => cache = EmptyCache

\* C4: a read after a direct edit of the vertex table, the entity count
\* being the cached one, returns what the cache held and starts no pipeline;
\* a read that did run the pipeline, as the first read after the cache was
\* cleared does, returns values derived from the present vertices.
C4_StaleUntilCleared ==
    /\ [][\A key \in Derived :
            (Read(key) /\ edited /\ CountMatches)
                => /\ call'.status = "returned"
                   /\ call'.runs = 0
                   /\ call'.ret.none = (key \notin cache.keys)
                   /\ call'.ret.polygons =
                        (IF key = "polygons_closed" THEN cache.polygons_closed
                         ELSE <<>>)
                   /\ cache' = cache /\ stack' = <<>>]_vars
    /\ []((call.op = "get" /\ call.status = "returned" /\ call.runs >= 1)
            => Fresh /\ ~edited /\ call.ret = CacheValue(cache, call.key))

\* a read returned polygons that are not those of the edited vertices
C4_Witness ==
    /\ call.op = "get" /\ call.status = "returned" /\ call.runs = 0
    /\ call.key = "polygons_closed" /\ ~call.ret.none
    /\ edited /\ CountMatches
    /\ call.ret.polygons # generate_discrete(entities, vertices, cache.paths)

\* C11: a second process() that follows a finished one, with no change by
\* the caller in between, is about to store the paths the cache already
\* holds (same entity order, same starting entity) and has left every
\* entity's points in the order the first run left them; it is about to
\* store the root list and the enclosure edges the cache already holds.
C11_SecondRunSame ==
    lastrun.settled =>
        /\ (At("put_paths") /\ "paths" \in cache.keys)
             => Top.paths = cache.paths /\ entities = Top.given
        /\ (At("put_tree") /\ "root" \in cache.keys)
             => /\ Top.tree.roots = cache.root
                /\ Top.tree.edges = cache.enclosure_directed

\* C12: in the graph closed_paths had vertex_graph build of the entities it
\* was given, every open
\* entity owns an edge: one of the vertex pairs it contributes (for a line,
\* the pair of its two end points) carries its index as entity_index, also
\* when another open entity joins the same pair of vertices.
C12_EveryOpenEntityTagged ==
    tphase = "done" =>
        LET g == vertex_graph(tresult.given)
        IN  \A i \in OpenIndices(tresult.given) :
                \E ed \in EdgesOf(tresult.given[i]) :
                    ed \in g.edges /\ g.entity_index[ed] = i

\* C13: an entity whose closed flag is true adds no edge to the vertex graph
\* (every edge is a vertex pair of an entity that is not closed, and carries
\* such an entity's index), is in the list of closed indices, and, when
\* closed_paths returns, is the single member of exactly one path and
\* occurs in no other path.
C13_ClosedEntityAlone ==
    tphase = "done" =>
        LET given  == tresult.given
            g      == vertex_graph(given)
            opened == {i \in 1..Len(given) : ~given[i].closed}
            paths  == tresult.paths
        IN  /\ \A ed \in g.edges :
                  /\ g.entity_index[ed] \in opened
                  /\ \E i \in opened : ed \in EdgesOf(given[i])
            /\ \A i \in (1..Len(given)) \ opened :
                  /\ i \in Range(g.closed)
                  /\ ~tresult.raised =>
                        /\ Cardinality({k \in 1..Len(paths) : paths[k] = <<i>>}) = 1
                        /\ \A k \in 1..Len(paths) :
                              i \in Range(paths[k]) => paths[k] = <<i>>

\* a circle drawn on the corners of a triangle of lines: closed_paths
\* returned the circle and the loop of the three lines
C13_Witness ==
    /\ tphase = "done" /\ ~tresult.raised
    /\ \E i \in 1..Len(tresult.given) :
          /\ tresult.given[i].closed
          /\ <<i>> \in Range(tresult.paths)
          /\ \E j \in OpenIndices(tresult.given) :
                Range(tresult.given[j].points) \subseteq Range(tresult.given[i].points)
    /\ \E k \in 1..Len(tresult.paths) : Len(tresult.paths[k]) = 3

(***************************************************************************)
(* Properties of the path ordering                                         *)
(***************************************************************************)
\* the vertex pairs the loop of vertex_to_entity_path visits, in order:
\* positions 0..len(vertex_path)
PairAt(vertex_path, i) ==
    <<vertex_path[(i % Len(vertex_path)) + 1],
      vertex_path[((i + 1) % Len(vertex_path)) + 1]>>

\* the pair has no vertex in common with the end points of the entity
NoCommonVertex(pair, e) ==
    {pair[1], pair[2]} \cap {EndPoints(e)[1], EndPoints(e)[2]} = {}

\* the entity the graph names for the pair
Owner(given, pair) ==
    given[vertex_graph(given).entity_index[{pair[1], pair[2]}]]

\* the cycles closed_paths ordered
Ordered(basis) == {k \in 1..Len(basis) : ~SkipCycle(basis[k])}

\* direction resolution on every pair of the reported cycles against every
\* entity: 0 (raise) exactly when they have no vertex in common, else 1 or -1
DirectionResolution ==
    \A k \in Ordered(tresult.basis) :
      \A i \in 0..Len(tresult.basis[k]) :
        \A j \in 1..Len(tresult.given) :
          LET pair == PairAt(tresult.basis[k], i)
              d    == edge_direction(pair, EndPoints(tresult.given[j]))
          IN  /\ d \in {0, 1, -1}
              /\ (d = 0) <=> NoCommonVertex(pair, tresult.given[j])

\* C14 as claimed: direction resolution raises exactly when the pair and the
\* end points have no vertex in common, and closed_paths raised whenever a
\* cycle it ordered contains a pair that has no vertex in common with the
\* end points of the entity owning the pair.
C14_CycleWithSuchPairRaises ==
    tphase = "done" =>
        /\ DirectionResolution
        /\ (\E k \in Ordered(tresult.basis) :
              \E i \in 0..Len(tresult.basis[k]) :
                 NoCommonVertex(PairAt(tresult.basis[k], i),
                     Owner(tresult.given, PairAt(tresult.basis[k], i))))
             => tresult.raised

\* C14: direction resolution raises exactly when the pair and the end points
\* have no vertex in common and answers 1 or -1 otherwise; closed_paths
\* raised only if a cycle it ordered contains such a pair, and it did raise
\* when the first pair of a cycle, the one examined with the path still
\* empty, is such a pair.
C14_DirectionRaises ==
    tphase = "done" =>
        /\ DirectionResolution
        /\ tresult.raised =>
              \E k \in Ordered(tresult.basis) :
                \E i \in 0..Len(tresult.basis[k]) :
                   NoCommonVertex(PairAt(tresult.basis[k], i),
                       Owner(tresult.given, PairAt(tresult.basis[k], i)))
        /\ (\E k \in Ordered(tresult.basis) :
               NoCommonVertex(PairAt(tresult.basis[k], 0),
                   Owner(tresult.given, PairAt(tresult.basis[k], 0))))
             => tresult.raised /\ tresult.paths = <<>>

\* the cycle was reported from the second corner of the polyline on: the
\* first pair is the polyline's middle segment, and closed_paths raised
C14_Witness ==
    /\ tphase = "done" /\ tresult.raised
    /\ \E k \in Ordered(tresult.basis) :
          NoCommonVertex(PairAt(tresult.basis[k], 0),
              Owner(tresult.given, PairAt(tresult.basis[k], 0)))

\* the path closed_paths returned for the k-th reported cycle: the paths of
\* the closed entities come first
PathOf(k) ==
    tresult.paths[Len(vertex_graph(tresult.given).closed)
                  + Cardinality({j \in Ordered(tresult.basis) : j <= k})]

\* the indices of the entities lying on the cycle
OwnersOf(vertex_path) ==
    {vertex_graph(tresult.given).entity_index[{PairAt(vertex_path, i)[1],
                                               PairAt(vertex_path, i)[2]}] :
        i \in 0..Len(vertex_path)}

Occurrences(path, e) == Cardinality({p \in 1..Len(path) : path[p] = e})

\* C15: closed_paths orders every reported cycle without raising, and the
\* path of a cycle holds exactly the entities lying on the cycle, each of
\* them once, also when an entity spans several consecutive pairs and when
\* the cycle is reported from a vertex in the middle of an entity.
C15_EachEntityOnce ==
    tphase = "done" =>
        /\ ~tresult.raised
        /\ \A k \in Ordered(tresult.basis) :
              /\ Range(PathOf(k)) = OwnersOf(tresult.basis[k])
              /\ \A e \in OwnersOf(tresult.basis[k]) :
                    Occurrences(PathOf(k), e) = 1

\* an entity is in the path twice (its direction was resolved twice)
C15_AppendedTwice ==
    /\ tphase = "done" /\ ~tresult.raised
    /\ \E k \in Ordered(tresult.basis) :
          \E e \in OwnersOf(tresult.basis[k]) : Occurrences(PathOf(k), e) = 2

(***************************************************************************)
(* Properties of connected_paths and polygons_full                         *)
(***************************************************************************)
\* the members of r's connected component in the undirected enclosure graph
ComponentOf(r) ==
    Reach(Undirected(Len(polygons), eresult.edges), {r})

\* C16: for every root r, polygons_full has taken as hole indices exactly
\* the other members of r's connected component of the undirected enclosure
\* graph, never r itself, also when there is a single root, and the holes of
\* r's polygon are the rings of exactly these polygons.
C16_HolesAreComponent ==
    full.done =>
        \A k \in 1..Len(eresult.roots) :
            LET r == eresult.roots[k]
            IN  /\ Range(full.hole_index[k]) = ComponentOf(r) \ {r}
                /\ r \notin Range(full.hole_index[k])
                /\ full.result[k].shell = polygons[r].ring
                /\ full.result[k].holes =
                      [h \in 1..Len(full.hole_index[k]) |->
                          polygons[full.hole_index[k][h]].ring]

\* the same for lists of polygons of which no two contain each other
C16_HolesAreComponent_Distinct ==
    (\A i, j \in 1..Len(polygons) :
        (i # j /\ ~polygons[i].none /\ ~polygons[j].none)
            => ~(Contains(polygons[i], polygons[j]) /\ Contains(polygons[j], polygons[i])))
        => C16_HolesAreComponent

(***************************************************************************)
(* Properties of generate_discrete                                         *)
(***************************************************************************)
\* the polygon path_to_polygon constructs for path i
Constructed(i) ==
    Polygon(discretize_path(entities, vertices, tresult.paths[i]))

\* entry i is a polygon that was invalid and could not be recovered
Unrecoverable(i) ==
    /\ ~is_valid(Constructed(i))
    /\ ~is_valid(buffer(Constructed(i), 1))

\* C17: the pipeline does not raise on an invalid polygon; an entry that is
\* invalid is replaced by the polygon buffered outward then inward if that
\* is valid, else by the polygon buffered outward if that is valid; else it
\* is kept as invalid or None, it is not inserted into the spatial index, it
\* has no containment edge and it is not among the roots, of which the
\* full polygons and the area are computed.
C17_UnrecoverableExcluded ==
    (tphase = "done" /\ ephase = "done") =>
        /\ ~eresult.raised
        /\ Len(polygons) = Len(tresult.paths)
        /\ \A i \in 1..Len(polygons) :
              LET p          == Constructed(i)
                  buffered   == buffer(p, 1)
                  unbuffered == buffer(buffered, -1)
              IN  /\ is_valid(p) => polygons[i] = p
                  /\ (~is_valid(p) /\ is_valid(buffered) /\ is_valid(unbuffered))
                        => polygons[i] = unbuffered
                  /\ (~is_valid(p) /\ is_valid(buffered) /\ ~is_valid(unbuffered))
                        => polygons[i] = buffered
                  /\ Unrecoverable(i) =>
                        /\ polygons[i].none \/ ~is_valid(polygons[i])
                        /\ \A j \in 1..Len(polygons) :
                              i \notin TreeIntersection(polygons, Bounds(polygons[j]))
                        /\ \A e \in eresult.edges : i \notin {e[1], e[2]}
                        /\ i \notin Range(eresult.roots)

\* what does hold: no raise, the recovery in the order claimed, and the
\* unrecoverable entry kept as the invalid polygon that was constructed
C17_RecoveryOrder ==
    (tphase = "done" /\ ephase = "done") =>
        /\ ~eresult.raised
        /\ \A i \in 1..Len(polygons) :
              /\ is_valid(Constructed(i)) => polygons[i] = Constructed(i)
              /\ (~is_valid(Constructed(i)) /\ ~Unrecoverable(i))
                    => /\ is_valid(polygons[i])
                       /\ polygons[i] = buffer(Constructed(i), 1)
              /\ Unrecoverable(i) => polygons[i] = Constructed(i)

\* C18: polygons_enclosure_tree given a list with None entries returns
\* without raising, and no containment edge starts or ends at a None entry.
C18_NoneEntriesAccepted ==
    (ephase = "done" /\ tphase = "off") =>
        /\ ~eresult.raised
        /\ \A i \in 1..Len(polygons) :
              polygons[i].none => \A e \in eresult.edges : i \notin {e[1], e[2]}

\* what does hold: the call raises exactly when the list has a None entry
C18_RaisesOnNone ==
    (ephase = "done" /\ tphase = "off") =>
        (eresult.raised <=> \E i \in 1..Len(polygons) : polygons[i].none)

(***************************************************************************)
(* Properties of the vertex table operations                               *)
(***************************************************************************)
\* C19: remove_unreferenced_vertices leaves every point index of every
\* entity within the vertex table, every index of the table referenced by
\* some entity, the entities and their point counts as they were, and every
\* reference designating the coordinates it designated before the call.
C19_ReferencesRenumbered ==
    [][TableRemoveUnreferenced =>
          /\ \A i \in 1..Len(entities') :
                Range(entities'[i].points) \subseteq 1..Len(vertices')
          /\ referenced_vertices(entities') = 1..Len(vertices')
          /\ Len(entities') = Len(entities)
          /\ \A i \in 1..Len(entities) :
                /\ Len(entities'[i].points) = Len(entities[i].points)
                /\ \A k \in 1..Len(entities[i].points) :
                      vertices'[entities'[i].points[k]]
                          = vertices[entities[i].points[k]]
          /\ Len(vertices') = Cardinality(referenced_vertices(entities))]_vars

\* the first vertex was referenced by no entity: the references to the
\* second and the third have become references to the first and the second
C19_Witness ==
    /\ tphase = "removed"
    /\ Len(vertices) = 2 /\ vertices[1] # vertices[2]
    /\ \E i \in 1..Len(entities) :
          /\ tresult.given[i].points = <<3, 2>>
          /\ entities[i].points = <<2, 1>>

\* C20: merge_vertices leaves one vertex of every place, every reference
\* designating the place it designated before and within the table, and no
\* entity with two equal consecutive point references where the references
\* were different before.
C20_MergeKeepsEntitiesProper ==
    [][TableMergeVertices =>
          /\ \A a, b \in 1..Len(vertices') : a # b => vertices'[a] # vertices'[b]
          /\ Range(vertices') = Range(vertices)
          /\ \A i \in 1..Len(entities) :
                /\ Range(entities'[i].points) \subseteq 1..Len(vertices')
                /\ \A k \in 1..Len(entities[i].points) :
                      vertices'[entities'[i].points[k]]
                          = vertices[entities[i].points[k]]
                /\ \A k \in 1..(Len(entities[i].points) - 1) :
                      entities'[i].points[k] = entities'[i].points[k + 1]
                          => entities[i].points[k] = entities[i].points[k + 1]]_vars

\* what does hold of merge_vertices: all of the above but the last part
C20_MergeCollapses ==
    [][TableMergeVertices =>
          /\ \A a, b \in 1..Len(vertices') : a # b => vertices'[a] # vertices'[b]
          /\ Range(vertices') = Range(vertices)
          /\ \A i \in 1..Len(entities) :
                /\ Range(entities'[i].points) \subseteq 1..Len(vertices')
                /\ \A k \in 1..Len(entities[i].points) :
                      vertices'[entities'[i].points[k]]
                          = vertices[entities[i].points[k]]]_vars

(***************************************************************************)
(* Properties of discretize_path                                           *)
(***************************************************************************)
\* C21: discretize_path raises on a path without entities, and for a path
\* of one entity it returns, without raising, the discretization of that
\* entity.
C21_EmptyRaisesSingleDirect ==
    sampled.done =>
        /\ Len(sampled.path) = 0 => sampled.raised
        /\ Len(sampled.path) = 1 =>
              /\ ~sampled.raised
              /\ sampled.points = Discrete(entities[sampled.path[1]], vertices)

\* the path of the circle alone: four points, the first one again at the end
C21_Witness ==
    /\ sampled.done /\ Len(sampled.path) = 1
    /\ entities[sampled.path[1]].closed
    /\ Len(sampled.points) = 4
    /\ sampled.points[1] = sampled.points[4]

\* the discretization of the k-th entity of the sampled path
Piece(k) == Discrete(entities[sampled.path[k]], vertices)

\* where the points of the k-th piece begin in the result
Offset(k) == SumSeq([j \in 1..(k - 1) |-> Len(Piece(j)) - 1])

\* every entity of the path ends where the next one begins
Joined ==
    \A k \in 1..(Len(sampled.path) - 1) :
        Piece(k)[Len(Piece(k))] = Piece(k + 1)[1]

\* C22: for a path of two or more entities, the result is the pieces in path
\* order, every piece but the last without its final point: its length is
\* the sum of the pieces' lengths less the number of junctions, it ends on
\* the last entity's final point, and when every entity ends where the next
\* begins each junction is there once, as the first point of the next piece.
C22_ConcatenatedWithoutJunctionRepeats ==
    (sampled.done /\ Len(sampled.path) >= 2) =>
        LET n == Len(sampled.path)
        IN  /\ ~sampled.raised
            /\ Len(sampled.points) =
                  SumSeq([k \in 1..n |-> Len(Piece(k))]) - (n - 1)
            /\ \A k \in 1..n :
                  \A q \in 1..(Len(Piece(k)) - (IF k = n THEN 0 ELSE 1)) :
                      sampled.points[Offset(k) + q] = Piece(k)[q]
            /\ sampled.points[Len(sampled.points)] = Piece(n)[Len(Piece(n))]
            /\ Joined =>
                  \A k \in 1..(n - 1) :
                      /\ sampled.points[Offset(k + 1) + 1] = Piece(k)[Len(Piece(k))]
                      /\ sampled.points[Offset(k + 1)] # Piece(k)[Len(Piece(k))]

\* the closed loop line, arc, line: five points for the four corners, ending
\* on the point it begins with
C22_Witness ==
    /\ sampled.done /\ Len(sampled.path) = 3 /\ Joined
    /\ \E k \in 1..3 : Len(Piece(k)) = 3
    /\ Len(sampled.points) = 5
    /\ sampled.points[1] = sampled.points[5]
    /\ Cardinality(Range(sampled.points)) = 4

(***************************************************************************)
(* Properties of the cache after a failed run                              *)
(***************************************************************************)
\* C23: when no call is in progress the processing flag is not set, also
\* after a call in which a stage raised, and a read that returned without
\* running the pipeline found the flag not set and the cached entity count
\* equal to the number of entities.
C23_FailedRunLeavesNoFlag ==
    /\ stack = <<>> => ~FlagSet
    /\ (call.op = "get" /\ call.status = "returned" /\ call.runs = 0)
          => ~FlagSet /\ CountMatches

(***************************************************************************)
(* Properties of the cached polygons_full                                  *)
(***************************************************************************)
\* C24: whenever no call is in progress and the cache holds polygons_full,
\* it holds polygons_closed and root as well and polygons_full is the list
\* built of them.
C24_FullBuiltFromCachedPolygons ==
    (stack = <<>> /\ call.status # "running" /\ "polygons_full" \in cache.keys) =>
        /\ {"polygons_closed", "root", "enclosure_directed"} \subseteq cache.keys
        /\ cache.polygons_full =
              polygons_full(cache.polygons_closed, cache.root,
                            cache.enclosure_directed).result

(***************************************************************************)
(* Properties of the ordering under the reports of the cycle basis         *)
(***************************************************************************)
\* q is p started at another position
Rotated(p, q) ==
    /\ Len(p) = Len(q)
    /\ \E s \in 0..Len(p) :
          \A i \in 1..Len(p) : q[i] = p[((i - 1 + s) % Len(p)) + 1]

\* closed_paths of the same drawing when cycle_basis reports b
OtherReport(b) == closed_paths(tresult.given, vertices, b)

\* the two results are the same: both raise or none does, the entities are
\* left with the same point orders, and every path of the one is a path of
\* the other started at another entity
SameOrdering(r, o) ==
    /\ r.raised = o.raised
    /\ ~r.raised =>
          /\ r.entities = o.entities
          /\ Len(r.paths) = Len(o.paths)
          /\ \A i \in 1..Len(r.paths) :
                \E j \in 1..Len(o.paths) : Rotated(r.paths[i], o.paths[j])

\* C25: the result of closed_paths is the same for every report of the
\* cycle basis of the drawing (every start vertex and both directions of
\* each cycle): the point order of every entity is the same and the paths
\* are equal up to cyclic rotation.
C25_SameForEveryReport ==
    tphase = "done" =>
        \A b \in cycle_basis(vertex_graph(tresult.given)) :
            SameOrdering([paths |-> tresult.paths, entities |-> entities,
                          raised |-> tresult.raised],
                         OtherReport(b))

(***************************************************************************)
(* Properties of split                                                     *)
(***************************************************************************)
\* the entities of a path, in the order of the path
EntitiesOf(ents, path) == [j \in 1..Len(path) |-> ents[path[j]]]

\* C26: split of a drawing with two or more roots returns one part for
\* every root; the entity count cached in a part is the number of its
\* entities, its cached paths are consecutive ranges that hold every index
\* of its entities once, its cached root is one index and designates the
\* polygon and the path of the root in the drawing, and the cached polygons
\* and root are the ones the pipeline computes for the part.
C26_PartsArriveWithValidCache ==
    (parts.done /\ Len(eresult.roots) >= 2) =>
        /\ Len(parts.result) = Len(eresult.roots)
        /\ \A i \in 1..Len(parts.result) :
              LET part == parts.result[i]
                  root == eresult.roots[i]
              IN  /\ "entity_count" \in part.cache.keys
                  /\ part.cache.entity_count = Len(part.entities)
                  /\ Flatten(part.cache.paths) =
                         [j \in 1..Len(part.entities) |-> j]
                  /\ Len(part.cache.root) = 1
                  /\ part.cache.root[1] \in 1..Len(part.cache.polygons_closed)
                  /\ part.cache.polygons_closed[part.cache.root[1]] = polygons[root]
                  /\ EntitiesOf(part.entities, part.cache.paths[part.cache.root[1]])
                        = EntitiesOf(entities, tresult.paths[root])
                  /\ part.cache.polygons_closed =
                        generate_discrete(part.entities, part.vertices,
                                          part.cache.paths)
                  /\ part.cache.root =
                        polygons_enclosure_tree(part.cache.polygons_closed).roots

\* split of a drawing with two roots, one of them with a hole made of three
\* lines, where the hole comes before the root in a part
C26_Witness ==
    /\ parts.done /\ Len(eresult.roots) = 2
    /\ \E i \in 1..Len(parts.result) :
          /\ Len(parts.result[i].cache.paths) = 2
          /\ parts.result[i].cache.root = <<2>>
          /\ Len(parts.result[i].entities) = 4

====
